---- MODULE Spec2Model ----
(***************************************************************************)
(* A model of btrfs.search (src/btrfs.py): the tree-search request is      *)
(* packed into a scratch buffer, handed to the TREE_SEARCH ioctl, and the  *)
(* buffer the ioctl leaves behind is decoded into (header, raw, typed)     *)
(* records.                                                                *)
(*                                                                         *)
(* Buffers are sequences of cells.  The struct layouts keep the widths of  *)
(* the source (Q = 8 cells, L = 4 cells, the 104-cell search key, the      *)
(* 32-cell result header); a cell holds a digit 0..ByteRadix-1 instead of  *)
(* 0..255, so that every 8-cell value stays inside TLC's integers.         *)
(* Python index i of a buffer is cell i+1 of the sequence.                 *)
(***************************************************************************)
EXTENDS Integers, Sequences, FiniteSets, TLC

\* ---------------------------------------------------------------- bounds

\* Number of values of one buffer cell (256 for a byte).
ByteRadix == 4

\* Calls of search one caller makes in a run.
MaxCalls == 2

\* Length of a scratch buffer: sized_array's count (4096 in the source).
BufCount == 180

\* ------------------------------------------------------------- constants

ULLONG_MAX == ByteRadix^8 - 1

ULONG_MAX == ByteRadix^4 - 1

\* Struct formats: the widths of the fields in order, and the pad cells that
\* follow them ("=Q6QLLL4x32x", "=3Q2L", "<L").
ioctl_search_key == [fields |-> <<8, 8, 8, 8, 8, 8, 8, 4, 4, 4>>, pad |-> 36]

ioctl_search_header == [fields |-> <<8, 8, 8, 4, 4>>, pad |-> 0]

shared_data_ref == [fields |-> <<4>>, pad |-> 0]

\* ------------------------------------------------------ struct.Struct

RECURSIVE SumSeq(_)
SumSeq(s) == IF s = <<>> THEN 0 ELSE Head(s) + SumSeq(Tail(s))

\* Struct.size
StructSize(fmt) == SumSeq(fmt.fields) + fmt.pad

\* Offset of field k (1-based) from the start of the struct: no alignment.
FieldOffset(fmt, k) == SumSeq(SubSeq(fmt.fields, 1, k - 1))

\* An unsigned integer as n little-endian cells.
RECURSIVE PackLE(_, _)
PackLE(v, n) == IF n = 0 THEN <<>> ELSE <<v % ByteRadix>> \o PackLE(v \div ByteRadix, n - 1)

\* The unsigned integer held by little-endian cells.
RECURSIVE UnpackLE(_)
UnpackLE(cells) == IF cells = <<>> THEN 0 ELSE Head(cells) + ByteRadix * UnpackLE(Tail(cells))

\* Whether struct refuses v for a field of n cells ("argument out of range").
OutOfRange(v, n) == v < 0 \/ v > ByteRadix^n - 1

\* Index of the first value pack refuses, 0 when all are accepted.
RECURSIVE FirstBad(_, _, _)
FirstBad(fmt, vals, k) ==
    IF k > Len(fmt.fields) THEN 0
    ELSE IF OutOfRange(vals[k], fmt.fields[k]) THEN k
    ELSE FirstBad(fmt, vals, k + 1)

\* The cells of fields k..n, in field order.
RECURSIVE PackFields(_, _, _, _)
PackFields(fmt, vals, k, n) ==
    IF k > n THEN <<>>
    ELSE PackLE(vals[k], fmt.fields[k]) \o PackFields(fmt, vals, k + 1, n)

\* sized_array(count): a new array of count zero cells.
sized_array(count) == [i \in 1..count |-> 0]

\* Buffer b with the cells img written from offset on (img lies inside b).
Overlay(b, offset, img) ==
    SubSeq(b, 1, offset) \o img \o SubSeq(b, offset + Len(img) + 1, Len(b))

\* Struct.pack_into(buf, offset, *vals): the whole struct region is zeroed,
\* then the fields are written in order; the first refused value raises
\* struct.error and leaves the earlier fields written.  A buffer too short
\* for the struct raises struct.error and is left alone.
pack_into(fmt, b, offset, vals) ==
    IF offset + StructSize(fmt) > Len(b) THEN [err |-> TRUE, buf |-> b]
    ELSE LET bad == FirstBad(fmt, vals, 1)
             n   == IF bad = 0 THEN Len(fmt.fields) ELSE bad - 1
         IN [err |-> bad # 0,
             buf |-> Overlay(b, offset,
                             Overlay(sized_array(StructSize(fmt)), 0, PackFields(fmt, vals, 1, n)))]

\* Struct.unpack_from(buf, offset): struct.error when the struct does not lie
\* inside the buffer, else the tuple of field values.
unpack_from(fmt, b, offset) ==
    IF offset + StructSize(fmt) > Len(b) THEN [err |-> TRUE, vals |-> <<>>]
    ELSE [err |-> FALSE,
          vals |-> [k \in 1..Len(fmt.fields) |->
                      UnpackLE(SubSeq(b, offset + FieldOffset(fmt, k) + 1,
                                         offset + FieldOffset(fmt, k) + fmt.fields[k]))]]

\* ------------------------------------------------------------ array.array

Min(a, b) == IF a < b THEN a ELSE b

\* The cells of b[lo:hi]: Python clamps both ends to the length.
SliceCells(b, lo, hi) == SubSeq(b, Min(lo, Len(b)) + 1, Min(hi, Len(b)))

\* A slice that aliases the array it was taken from.
ArraySliceView(id, b, lo, hi) == [view |-> TRUE, id |-> id, lo |-> lo, hi |-> hi, cells |-> <<>>]

\* buf[lo:hi] of an array.array: a new array holding a copy of the cells.
ArraySlice(id, b, lo, hi) == [view |-> FALSE, id |-> 0, lo |-> 0, hi |-> 0, cells |-> SliceCells(b, lo, hi)]

\* The cells an array object holds now, given the memory m of the buffers.
Cells(m, a) == IF a.view THEN SliceCells(m[a.id], a.lo, a.hi) ELSE a.cells

\* ------------------------------------------------------------- arguments

\* An optional value: None, or the value.
None == <<>>

Some(x) == <<x>>

\* A range argument as the caller writes it: one integer, or a (low, high) pair.
Scalar(v) == [pair |-> FALSE, v |-> <<v>>]

Pair(lo, hi) == [pair |-> TRUE, v |-> <<lo, hi>>]

\* A scalar that is taken for the upper bound only.
UnpackRangeLowZero(x) == IF x.pair THEN <<x.v[1], x.v[2]>> ELSE <<0, x.v[1]>>

\* "min_x, max_x = x", and on TypeError "min_x = max_x = x".
UnpackRange(x) == IF x.pair THEN <<x.v[1], x.v[2]>> ELSE <<x.v[1], x.v[1]>>

\* The values packed with offset and transid exchanged.
KeyValuesSwapped(a) ==
    <<a.tree,
      UnpackRange(a.objid)[1], UnpackRange(a.objid)[2],
      UnpackRange(a.transid)[1], UnpackRange(a.transid)[2],
      UnpackRange(a.offset)[1], UnpackRange(a.offset)[2],
      UnpackRange(a.key_type)[1], UnpackRange(a.key_type)[2],
      a.number>>

\* The values search hands to ioctl_search_key.pack_into, in its order.
KeyValues(a) ==
    <<a.tree,
      UnpackRange(a.objid)[1], UnpackRange(a.objid)[2],
      UnpackRange(a.offset)[1], UnpackRange(a.offset)[2],
      UnpackRange(a.transid)[1], UnpackRange(a.transid)[2],
      UnpackRange(a.key_type)[1], UnpackRange(a.key_type)[2],
      a.number>>

\* search's defaults: every range (0, max), number = ULONG_MAX, no structure,
\* no buffer.
DefaultArgs(tree) ==
    [tree |-> tree,
     objid |-> Pair(0, ULLONG_MAX), key_type |-> Pair(0, ULONG_MAX),
     offset |-> Pair(0, ULLONG_MAX), transid |-> Pair(0, ULLONG_MAX),
     number |-> ULONG_MAX, structure |-> None, buf |-> None]

\* ----------------------------------------------------------------- state

Callers == {1, 2}

\* Buffers the callers own and may pass as buf.
UserBufs == {1, 2}

\* Every call with buf=None gets the same array.
AllocSingleton(c) == 11

\* The array a call of caller c gets from sized_array(): its own.
Alloc(c) == 10 + c

BufIds == UserBufs \cup {Alloc(c) : c \in Callers}

VARIABLES
    pc,         \* per caller: where its call of search stands
    args,       \* per caller: the arguments of its call
    buf,        \* per caller: search's local buf, a buffer id
    num_items,  \* per caller: search's local num_items
    pos,        \* per caller: search's local pos
    ret,        \* per caller: search's local ret
    exc,        \* per caller: the exception its call raised, "" for none
    mem,        \* the cells of every buffer
    result,     \* per caller: the list its last returning call gave it, with
                \* the raw payloads as they were on return and the buffer used
    req,        \* per caller: the key the transport read from the buffer
    resp,       \* per caller: what the transport answered
    snap,       \* per caller: the buffer as the transport left it
    ioctls,     \* per caller: transport calls made by its call
    ncalls,     \* per caller: calls of search it has made
    tree,       \* the items of the tree the paginating caller enumerates
    page        \* the paginating caller's cursor and what it has received

vars == <<pc, args, buf, num_items, pos, ret, exc, mem, result, req, resp, snap, ioctls, ncalls, tree, page>>

locals == <<buf, num_items, pos, ret>>

ghosts == <<req, resp, snap, ioctls, ncalls>>

\* ------------------------------------------------------------- transport

\* A response: the failure of the call, or the item count written over
\* max_items, the (header, payload) entries written after the key, and the
\* cell written over the rest of the buffer (-1: the rest is left alone).
NoResp == [fail |-> FALSE, nr |-> 0, items |-> <<>>, fill |-> -1]

Failure == [fail |-> TRUE, nr |-> 0, items |-> <<>>, fill |-> -1]

RECURSIVE Body(_)
Body(items) ==
    IF items = <<>> THEN <<>>
    ELSE PackFields(ioctl_search_header, Head(items).header, 1, 5)
         \o Head(items).data \o Body(Tail(items))

\* The buffer after the transport has written response r into it: the count
\* in the key's tenth field, the entries right after the key.  The transport
\* writes nothing outside the buffer.
WriteResponse(b, r) ==
    LET at   == FieldOffset(ioctl_search_key, 10)
        from == StructSize(ioctl_search_key)
        body == Body(r.items)
        end  == from + Len(body)
        rest == IF r.fill >= 0 THEN [i \in 1..(Len(b) - end) |-> r.fill]
                ELSE SubSeq(b, end + 1, Len(b))
    IN Overlay(SubSeq(b, 1, from), at, PackLE(r.nr, ioctl_search_key.fields[10]))
       \o body \o rest

\* ----------------------------------------------------------------- search

Set(f, c, v) == [f EXCEPT ![c] = v]

\* What becomes of a call whose ioctl fails, were the error swallowed.
OnIoctlErrorContinue == "called"

\* What becomes of a call whose ioctl raises: nothing catches the exception.
OnIoctlError == "raised"

\* Lines 183-210: the ranges are unpacked, the buffer is allocated when none
\* was passed, and the key is packed at its start.
Call(c, a) ==
    /\ pc[c] \in {"idle", "returned", "raised"}
    /\ LET b  == IF a.buf = None THEN Alloc(c) ELSE a.buf[1]
           m0 == IF a.buf = None THEN Set(mem, b, sized_array(BufCount)) ELSE mem
           p  == pack_into(ioctl_search_key, m0[b], 0, KeyValues(a))
       IN /\ mem' = Set(m0, b, p.buf)
          /\ buf' = Set(buf, c, b)
          /\ pc' = Set(pc, c, IF p.err THEN "raised" ELSE "packed")
          /\ exc' = Set(exc, c, IF p.err THEN "struct.error" ELSE "")
    /\ args' = Set(args, c, a)
    /\ num_items' = Set(num_items, c, 0)
    /\ pos' = Set(pos, c, 0)
    /\ ret' = Set(ret, c, <<>>)
    /\ req' = Set(req, c, <<>>)
    /\ resp' = Set(resp, c, NoResp)
    /\ snap' = Set(snap, c, <<>>)
    /\ ioctls' = Set(ioctls, c, 0)
    /\ ncalls' = Set(ncalls, c, ncalls[c] + 1)
    /\ UNCHANGED result

\* Line 212, the call succeeding: the transport reads the key and overwrites
\* the buffer with response r.
Ioctl(c, r) ==
    /\ pc[c] = "packed"
    /\ ~r.fail
    /\ req' = Set(req, c, unpack_from(ioctl_search_key, mem[buf[c]], 0).vals)
    /\ mem' = Set(mem, buf[c], WriteResponse(mem[buf[c]], r))
    /\ resp' = Set(resp, c, r)
    /\ snap' = Set(snap, c, mem'[buf[c]])
    /\ ioctls' = Set(ioctls, c, ioctls[c] + 1)
    /\ pc' = Set(pc, c, "called")
    /\ UNCHANGED <<args, locals, exc, result, ncalls>>

\* Line 212, the call failing: fcntl.ioctl raises OSError.
IoctlFail(c) ==
    /\ pc[c] = "packed"
    /\ req' = Set(req, c, unpack_from(ioctl_search_key, mem[buf[c]], 0).vals)
    /\ resp' = Set(resp, c, Failure)
    /\ ioctls' = Set(ioctls, c, ioctls[c] + 1)
    /\ pc' = Set(pc, c, OnIoctlError)
    /\ exc' = Set(exc, c, IF OnIoctlError = "raised" THEN "OSError" ELSE "")
    /\ UNCHANGED <<args, locals, mem, result, snap, ncalls>>

\* Lines 213-216: the count is read back from the key, the cursor is set
\* behind the key.
DecodeStart(c) ==
    /\ pc[c] = "called"
    /\ LET results == unpack_from(ioctl_search_key, mem[buf[c]], 0)
       IN /\ num_items' = Set(num_items, c, IF results.err THEN 0 ELSE results.vals[10])
          /\ pc' = Set(pc, c, IF results.err THEN "raised" ELSE "loop")
          /\ exc' = Set(exc, c, IF results.err THEN "struct.error" ELSE "")
    /\ pos' = Set(pos, c, StructSize(ioctl_search_key))
    /\ ret' = Set(ret, c, <<>>)
    /\ UNCHANGED <<args, buf, mem, result, ghosts>>

\* One record built with line 226 left out: the cursor stays behind the
\* header instead of moving behind the payload.
DecodeOneNoAdvance(id, b, p, structure) ==
    LET header == unpack_from(ioctl_search_header, b, p)
        p1     == p + StructSize(ioctl_search_header)
        len    == IF header.err THEN 0 ELSE header.vals[5]
        data   == IF structure = None THEN [err |-> FALSE, vals |-> <<>>]
                  ELSE unpack_from(structure[1], b, p1)
    IN [err |-> header.err \/ data.err,
        rec |-> [header |-> header.vals,
                 raw_data |-> ArraySlice(id, b, p1, p1 + len),
                 data |-> IF structure = None THEN None ELSE Some(data.vals)],
        pos |-> p1]

\* One record as lines 219-226 build it from buffer b (id), cursor at p.
DecodeOne(id, b, p, structure) ==
    LET header == unpack_from(ioctl_search_header, b, p)
        p1     == p + StructSize(ioctl_search_header)
        len    == IF header.err THEN 0 ELSE header.vals[5]
        data   == IF structure = None THEN [err |-> FALSE, vals |-> <<>>]
                  ELSE unpack_from(structure[1], b, p1)
    IN [err |-> header.err \/ data.err,
        rec |-> [header |-> header.vals,
                 raw_data |-> ArraySlice(id, b, p1, p1 + len),
                 data |-> IF structure = None THEN None ELSE Some(data.vals)],
        pos |-> p1 + len]

\* Lines 213-228 run without interruption on buffer b: the list search
\* returns, or the struct.error it raises.
RECURSIVE DecodeLoop(_, _, _, _, _)
DecodeLoop(id, b, n, p, structure) ==
    IF n <= 0 THEN [err |-> FALSE, recs |-> <<>>]
    ELSE LET d == DecodeOne(id, b, p, structure)
         IN IF d.err THEN [err |-> TRUE, recs |-> <<>>]
            ELSE LET more == DecodeLoop(id, b, n - 1, d.pos, structure)
                 IN [err |-> more.err,
                     recs |-> IF more.err THEN <<>> ELSE <<d.rec>> \o more.recs]

DecodeAll(id, b, structure) ==
    DecodeLoop(id, b, unpack_from(ioctl_search_key, b, 0).vals[10],
               StructSize(ioctl_search_key), structure)

\* Lines 217-226: one turn of the while loop.
LoopIter(c) ==
    /\ pc[c] = "loop"
    /\ num_items[c] > 0
    /\ LET d == DecodeOne(buf[c], mem[buf[c]], pos[c], args[c].structure)
       IN IF d.err
          THEN /\ pc' = Set(pc, c, "raised")
               /\ exc' = Set(exc, c, "struct.error")
               /\ ret' = Set(ret, c, <<>>)
               /\ UNCHANGED pos
          ELSE /\ ret' = Set(ret, c, Append(ret[c], d.rec))
               /\ pos' = Set(pos, c, d.pos)
               /\ UNCHANGED <<pc, exc>>
    /\ num_items' = Set(num_items, c, num_items[c] - 1)
    /\ UNCHANGED <<args, buf, mem, result, ghosts>>

\* Line 228: the loop is over, ret goes to the caller.
Return(c) ==
    /\ pc[c] = "loop"
    /\ num_items[c] <= 0
    /\ pc' = Set(pc, c, "returned")
    /\ result' = Set(result, c, [recs |-> ret[c],
                                 raws |-> [k \in 1..Len(ret[c]) |-> Cells(mem, ret[c][k].raw_data)],
                                 buf |-> buf[c]])
    /\ UNCHANGED <<args, locals, exc, mem, ghosts>>

\* No call has been made: every caller is idle and every array is zeroed.
InitSearch ==
    /\ pc = [c \in Callers |-> "idle"]
    /\ args = [c \in Callers |-> DefaultArgs(0)]
    /\ buf = [c \in Callers |-> Alloc(c)]
    /\ num_items = [c \in Callers |-> 0]
    /\ pos = [c \in Callers |-> 0]
    /\ ret = [c \in Callers |-> <<>>]
    /\ exc = [c \in Callers |-> ""]
    /\ mem = [b \in BufIds |-> sized_array(BufCount)]
    /\ result = [c \in Callers |-> [recs |-> <<>>, raws |-> <<>>, buf |-> 0]]
    /\ req = [c \in Callers |-> <<>>]
    /\ resp = [c \in Callers |-> NoResp]
    /\ snap = [c \in Callers |-> <<>>]
    /\ ioctls = [c \in Callers |-> 0]
    /\ ncalls = [c \in Callers |-> 0]

\* The enumeration of a caller: the next low object id, the page size it
\* asks for, the headers and the page lengths received, and whether it ended.
Cursor(low, maxi) == [low |-> low, maxi |-> maxi, seen |-> <<>>, pages |-> <<>>, done |-> FALSE]

Init ==
    /\ InitSearch
    /\ tree = <<>>
    /\ page = Cursor(0, 0)

\* ------------------------------------------------------------------ inputs

FS_TREE_OBJECTID == 5

FIRST_FREE_OBJECTID == 256

EXTENT_DATA_KEY == 108

\* Cells of a buffer behind the key.
Room == BufCount - StructSize(ioctl_search_key)

HeaderSize == StructSize(ioctl_search_header)

\* An entry as the transport writes it: the header (transid, objectid,
\* offset, type, len) and n payload cells, none of them zero.
Entry(objectid, len, n) ==
    [header |-> <<7, objectid, 0, EXTENT_DATA_KEY, len>>,
     data |-> [i \in 1..n |-> 1 + ((i + objectid) % (ByteRadix - 1))]]

Resp(nr, items, fill) == [fail |-> FALSE, nr |-> nr, items |-> items, fill |-> fill]

\* Responses whose nr entries are whole and lie inside the buffer.
RespWellFormed ==
    { Resp(0, <<>>, -1),
      Resp(1, <<Entry(300, 4, 4)>>, -1),
      Resp(1, <<Entry(300, 4, 4)>>, ByteRadix - 1),
      Resp(2, <<Entry(300, 0, 0), Entry(305, 4, 4)>>, -1),
      Resp(2, <<Entry(300, 4, 4), Entry(305, 2, 2)>>, -1),
      Resp(2, <<Entry(300, 4, 4), Entry(305, 2, 2)>>, ByteRadix - 1),
      Resp(2, <<Entry(300, Room - 2 * HeaderSize, Room - 2 * HeaderSize), Entry(305, 0, 0)>>, -1) }

\* Responses that declare more than the buffer holds: a third entry where
\* only two fit, and a data_length of 200 with fewer cells left.
RespTruncated ==
    { Resp(3, <<Entry(300, 4, 4), Entry(305, 4, 4)>>, -1),
      Resp(1, <<Entry(300, 200, Room - HeaderSize)>>, -1),
      Resp(2, <<Entry(300, 200, Room - HeaderSize)>>, -1) }

ArgsDecode ==
    { [DefaultArgs(FS_TREE_OBJECTID) EXCEPT !.structure = s, !.buf = b] :
        s \in {None, Some(shared_data_ref)}, b \in {None, Some(1)} }

\* ---------------------------------------------------------- specifications

paging == <<tree, page>>

\* One caller, calling search again and again with and without a structure
\* and a buffer of its own, against every response.
Next ==
    \/ \E a \in ArgsDecode : ncalls[1] < MaxCalls /\ Call(1, a) /\ UNCHANGED paging
    \/ \E r \in RespWellFormed \cup RespTruncated : Ioctl(1, r) /\ UNCHANGED paging
    \/ IoctlFail(1) /\ UNCHANGED paging
    \/ DecodeStart(1) /\ UNCHANGED paging
    \/ LoopIter(1) /\ UNCHANGED paging
    \/ Return(1) /\ UNCHANGED paging

Spec == Init /\ [][Next]_vars

\* ------------------------------------------------------------ decoding

\* The call of caller c is over: it returned or raised.
Over(c) == pc[c] \in {"returned", "raised"}

\* The call of caller c got an answer from the transport.
Answered(c) == ioctls[c] > 0 /\ ~resp[c].fail

\* Response r holds r.nr whole entries, all inside a buffer of BufCount cells.
WellFormed(r) ==
    /\ r.nr = Len(r.items)
    /\ \A k \in 1..Len(r.items) : Len(r.items[k].data) = r.items[k].header[5]
    /\ Len(Body(r.items)) <= Room

\* Buffer b with every cell from Python index p on set to zero.
ZeroFrom(b, p) == [i \in 1..Len(b) |-> IF i > p THEN 0 ELSE b[i]]

\* Buffer b holds n entries from cursor p on: each header and each payload of
\* the declared data_length lies inside b.
RECURSIVE Holds(_, _, _)
Holds(b, n, p) ==
    \/ n = 0
    \/ /\ p + HeaderSize <= Len(b)
       /\ LET len == unpack_from(ioctl_search_header, b, p).vals[5]
          IN /\ p + HeaderSize + len <= Len(b)
             /\ Holds(b, n - 1, p + HeaderSize + len)

\* C1: after a response of N whole entries packed behind the key, search
\* returns exactly N records in buffer order, the k-th with the k-th header
\* and a raw payload of that header's data_length cells, and the cells behind
\* the N-th entry have no part in the result (the records are those decoded
\* from the same buffer with these cells zeroed).
C1_DecodeExact ==
    \A c \in Callers :
        (Over(c) /\ Answered(c) /\ WellFormed(resp[c])) =>
            /\ pc[c] = "returned"
            /\ Len(ret[c]) = resp[c].nr
            /\ \A k \in 1..Len(ret[c]) :
                /\ ret[c][k].header = resp[c].items[k].header
                /\ Cells(mem, ret[c][k].raw_data) = resp[c].items[k].data
                /\ Len(Cells(mem, ret[c][k].raw_data)) = ret[c][k].header[5]
            /\ ret[c] = DecodeAll(buf[c],
                                  ZeroFrom(snap[c], StructSize(ioctl_search_key)
                                                    + Len(Body(resp[c].items))),
                                  args[c].structure).recs

\* C2: when the response declares a count or a data_length that the rest of
\* the buffer cannot hold, search raises a decoding error and returns no
\* record; no returned record has a raw payload shorter than its data_length.
C2_TruncatedRaises ==
    \A c \in Callers :
        /\ (Over(c) /\ Answered(c)
              /\ ~Holds(snap[c], unpack_from(ioctl_search_key, snap[c], 0).vals[10],
                        StructSize(ioctl_search_key)))
             => (pc[c] = "raised" /\ exc[c] = "struct.error" /\ ret[c] = <<>>)
        /\ pc[c] = "returned" =>
             \A k \in 1..Len(ret[c]) :
                Len(Cells(mem, ret[c][k].raw_data)) = ret[c][k].header[5]

\* C9: with a structure, the typed payload of a record is decoded from that
\* record's own payload cells alone, so no record carries a typed payload
\* when its payload is shorter than the structure; without a structure the
\* typed payload is absent and the raw payload is returned all the same.
C9_TypedFromOwnPayload ==
    \A c \in Callers : \A k \in 1..Len(ret[c]) :
        LET raw == Cells(mem, ret[c][k].raw_data)
        IN pc[c] = "returned" =>
             IF args[c].structure = None
             THEN ret[c][k].data = None
             ELSE /\ Len(raw) >= StructSize(args[c].structure[1])
                  /\ ret[c][k].data = Some(unpack_from(args[c].structure[1], raw, 0).vals)

\* C7: a call whose transport call failed has raised that OSError after one
\* transport call, with nothing decoded and no record.
C7_FailureState ==
    \A c \in Callers :
        resp[c].fail =>
            /\ pc[c] = "raised" /\ exc[c] = "OSError"
            /\ ioctls[c] = 1
            /\ ret[c] = <<>> /\ num_items[c] = 0 /\ pos[c] = 0

\* C7: the failing step changes no buffer and no list a caller holds.
C7_FailureFrame ==
    \A c \in Callers :
        (resp'[c].fail /\ ~resp[c].fail) => (mem' = mem /\ result' = result)

\* C7: a failed transport call is propagated as it is, without a second
\* transport call, a decode or a record, and leaves nothing behind: the
\* failing step changes no buffer and no returned list, and the key a later
\* call packs is the one its own arguments give.
C7_FailurePropagates ==
    /\ []C7_FailureState
    /\ [][C7_FailureFrame]_vars
    /\ [](\A c \in Callers : pc[c] = "packed" =>
            SubSeq(mem[buf[c]], 1, StructSize(ioctl_search_key))
              = PackFields(ioctl_search_key, KeyValues(args[c]), 1, 10)
                \o sized_array(ioctl_search_key.pad))

\* C7 happens: a call on the caller's own buffer fails after an earlier call
\* on that buffer returned records.
C7_Witness ==
    /\ resp[1].fail /\ pc[1] = "raised"
    /\ args[1].buf = Some(1) /\ result[1].buf = 1 /\ result[1].recs # <<>>

Dims == {"objid", "key_type", "offset", "transid"}

\* A call with every field of the key different from the others.
ArgsFull ==
    [tree |-> FS_TREE_OBJECTID,
     objid |-> Pair(FIRST_FREE_OBJECTID, 300), key_type |-> Pair(EXTENT_DATA_KEY, 109),
     offset |-> Pair(1, 2), transid |-> Pair(3, 4),
     number |-> 2, structure |-> None, buf |-> None]

\* The value a dimension is varied around.
DimValue(d) ==
    CASE d = "objid" -> 300 [] d = "key_type" -> EXTENT_DATA_KEY
      [] d = "offset" -> 7 [] d = "transid" -> 9

\* ArgsFull, ArgsFull with one dimension given as a scalar v, as (v, v) and
\* as (v + 1, v), and calls with a value no field of the key can hold.
ArgsEncode ==
    {ArgsFull}
    \cup UNION { { [ArgsFull EXCEPT ![d] = x] :
                     x \in {Scalar(DimValue(d)), Pair(DimValue(d), DimValue(d)),
                            Pair(DimValue(d) + 1, DimValue(d))} } : d \in Dims }
    \cup { [ArgsFull EXCEPT !.number = ULONG_MAX + 1],
           [ArgsFull EXCEPT !.objid = Scalar(-1)],
           [ArgsFull EXCEPT !.key_type = Pair(0, ULONG_MAX + 1)] }

RespEncode == { Resp(0, <<>>, -1), Resp(1, <<Entry(300, 4, 4)>>, -1) }

\* Two callers, each calling search once with buf unset and the key varied.
NextEncode ==
    \E c \in Callers :
        \/ \E a \in ArgsEncode : pc[c] = "idle" /\ Call(c, a) /\ UNCHANGED paging
        \/ \E r \in RespEncode : Ioctl(c, r) /\ UNCHANGED paging
        \/ IoctlFail(c) /\ UNCHANGED paging
        \/ DecodeStart(c) /\ UNCHANGED paging
        \/ LoopIter(c) /\ UNCHANGED paging
        \/ Return(c) /\ UNCHANGED paging

SpecEncode == Init /\ [][NextEncode]_vars

\* The low and the high bound the caller gave for a range.
Low(x) == x.v[1]

High(x) == x.v[Len(x.v)]

\* The unsigned integer of w cells at Python index off of buffer b.
ReadAt(b, off, w) == UnpackLE(SubSeq(b, off + 1, off + w))

\* Arguments a give some range with low > high.
LowAboveHigh(a) == \E d \in Dims : Low(a[d]) > High(a[d])

\* C4: a call with low > high in some dimension raises before any transport
\* call, and the transport never sees a key whose min exceeds its max.
C4_RejectsInvertedRange ==
    \A c \in Callers :
        /\ req[c] # <<>> =>
             /\ req[c][2] <= req[c][3] /\ req[c][4] <= req[c][5]
             /\ req[c][6] <= req[c][7] /\ req[c][8] <= req[c][9]
        /\ (LowAboveHigh(args[c]) /\ pc[c] # "packed") =>
             (pc[c] = "raised" /\ exc[c] = "struct.error" /\ ioctls[c] = 0)

\* Arguments a and b are the same call but for one dimension, which a gives
\* as a scalar v and b as the pair (v, v).
ScalarTwin(a, b) ==
    \E d \in Dims :
        /\ ~a[d].pair /\ b[d] = Pair(a[d].v[1], a[d].v[1])
        /\ [a EXCEPT ![d] = b[d]] = b

\* C5: a call that gives one dimension as a scalar v puts the same cells into
\* the key, and hands the transport the same key, as the call that gives it
\* as (v, v).
C5_ScalarIsPair ==
    \A c1, c2 \in Callers :
        ScalarTwin(args[c1], args[c2]) =>
            /\ (pc[c1] = "packed" /\ pc[c2] = "packed") =>
                 SubSeq(mem[buf[c1]], 1, StructSize(ioctl_search_key))
                   = SubSeq(mem[buf[c2]], 1, StructSize(ioctl_search_key))
            /\ (req[c1] # <<>> /\ req[c2] # <<>>) => req[c1] = req[c2]

\* C5 happens: the two callers have packed twin calls, in each dimension.
C5_Witness ==
    /\ pc[1] = "packed" /\ pc[2] = "packed"
    /\ ScalarTwin(args[1], args[2])
    /\ ~args[1].transid.pair

\* C6: the packed key, read at the positions of the kernel's search key
\* (tree id at 0; object id low/high at 8, 16; offset at 24, 32; transaction
\* id at 40, 48; type at 56, 60; item count at 64), holds the caller's values.
C6_KeyRoundTrip ==
    \A c \in Callers :
        pc[c] = "packed" =>
            LET b == mem[buf[c]]
                a == args[c]
            IN /\ ReadAt(b, 0, 8) = a.tree
               /\ ReadAt(b, 8, 8) = Low(a.objid) /\ ReadAt(b, 16, 8) = High(a.objid)
               /\ ReadAt(b, 24, 8) = Low(a.offset) /\ ReadAt(b, 32, 8) = High(a.offset)
               /\ ReadAt(b, 40, 8) = Low(a.transid) /\ ReadAt(b, 48, 8) = High(a.transid)
               /\ ReadAt(b, 56, 4) = Low(a.key_type) /\ ReadAt(b, 60, 4) = High(a.key_type)
               /\ ReadAt(b, 64, 4) = a.number

\* C6 happens: a key whose ten fields all differ has been packed.
C6_Witness == pc[1] = "packed" /\ args[1] = ArgsFull

\* -------------------------------------------------------------- threads

\* The calls of caller c: a key of its own, with or without a structure, in
\* a buffer nobody else uses (its own array, or none passed).
ArgsThreads(c) ==
    { [DefaultArgs(FS_TREE_OBJECTID) EXCEPT
         !.objid = Scalar(300 + c), !.structure = s, !.buf = b] :
        s \in {None, Some(shared_data_ref)}, b \in {None, Some(c)} }

\* The answers to caller c: none, one or two entries of its object id.
RespThreads(c) ==
    { Resp(0, <<>>, -1),
      Resp(1, <<Entry(300 + c, 4, 4)>>, -1),
      Resp(2, <<Entry(300 + c, 4, 4), Entry(300 + c, 2, 2)>>, ByteRadix - 1) }

\* Two threads, each calling search once; their steps interleave freely.
NextThreads ==
    \E c \in Callers :
        \/ \E a \in ArgsThreads(c) : pc[c] = "idle" /\ Call(c, a) /\ UNCHANGED paging
        \/ \E r \in RespThreads(c) : Ioctl(c, r) /\ UNCHANGED paging
        \/ IoctlFail(c) /\ UNCHANGED paging
        \/ DecodeStart(c) /\ UNCHANGED paging
        \/ LoopIter(c) /\ UNCHANGED paging
        \/ Return(c) /\ UNCHANGED paging

SpecThreads == Init /\ [][NextThreads]_vars

\* The buffer a call with arguments a and answer r leaves when nothing else
\* runs: the key packed into a fresh array, the response written over it.
AloneBuffer(a, r) ==
    WriteResponse(pack_into(ioctl_search_key, sized_array(BufCount), 0, KeyValues(a)).buf, r)

\* C10: of two interleaved calls with buffers of their own, each hands the
\* transport its own key, keeps the buffer the transport left it until it is
\* over, and ends as it ends alone: with the same records, or the same error.
C10_ThreadsApart ==
    \A c \in Callers :
        /\ req[c] # <<>> => req[c] = KeyValues(args[c])
        /\ Answered(c) =>
             LET alone == DecodeAll(buf[c], AloneBuffer(args[c], resp[c]), args[c].structure)
             IN /\ mem[buf[c]] = AloneBuffer(args[c], resp[c])
                /\ pc[c] = "raised" => alone.err
                /\ pc[c] = "returned" => (~alone.err /\ ret[c] = alone.recs)

\* C10 happens: both callers ran in arrays search allocated and returned,
\* caller 1 with its two records and caller 2 with its one.
C10_Witness ==
    /\ pc[1] = "returned" /\ Len(ret[1]) = 2
    /\ pc[2] = "returned" /\ Len(ret[2]) = 1
    /\ args[1].buf = None /\ args[2].buf = None
    /\ ret[1][1].header # ret[2][1].header

\* ----------------------------------------------------------- pagination

MaxItems == 3

\* The type every enumeration asks for.
PageType == EXTENT_DATA_KEY

\* An item of the tree: its header and its payload of n cells.
Item(objectid, type, offset, n) ==
    [header |-> <<7, objectid, offset, type, n>>,
     data |-> [i \in 1..n |-> 1 + ((i + objectid + offset) % (ByteRadix - 1))]]

\* Trees in tree order (object id, type, offset): the scenario's three items;
\* the same among items of another type and below the range; an object with
\* three items of the type; an item with the largest object id; no item.
Trees ==
    { << Item(300, PageType, 0, 4), Item(305, PageType, 0, 4), Item(310, PageType, 0, 4) >>,
      << Item(100, PageType, 0, 4), Item(300, 1, 0, 4), Item(300, PageType, 0, 4),
         Item(305, PageType, 0, 0), Item(305, PageType + 1, 0, 4), Item(310, PageType, 0, 4) >>,
      << Item(300, PageType, 0, 4), Item(300, PageType, 8, 4), Item(300, PageType, 16, 4),
         Item(310, PageType, 0, 4) >>,
      << Item(300, PageType, 0, 4), Item(ULLONG_MAX, PageType, 0, 4) >>,
      << >> }

\* Item it lies in every range of search key k.
InKey(k, it) ==
    /\ k[2] <= it.header[2] /\ it.header[2] <= k[3]
    /\ k[4] <= it.header[3] /\ it.header[3] <= k[5]
    /\ k[6] <= it.header[1] /\ it.header[1] <= k[7]
    /\ k[8] <= it.header[4] /\ it.header[4] <= k[9]

\* The response of the transport to key k over tree t: the items in the
\* key's ranges, in tree order, as many as nr_items allows and the buffer
\* holds behind the key.
TreeResponse(t, k) ==
    LET Test(it) == InKey(k, it)
        cand == SelectSeq(t, Test)
        fits == {n \in 0..Len(cand) : n <= k[10] /\ Len(Body(SubSeq(cand, 1, n))) <= Room}
        n    == CHOOSE m \in fits : \A o \in fits : o <= m
    IN Resp(n, SubSeq(cand, 1, n), -1)

\* The transport answers the call of caller c from the tree.
IoctlTree(c) ==
    /\ pc[c] = "packed"
    /\ \E k \in {unpack_from(ioctl_search_key, mem[buf[c]], 0).vals} :
         \E r \in {TreeResponse(tree, k)} : Ioctl(c, r)

\* The caller asks for the next page: the items of the type from object id
\* page.low on, at most page.maxi of them.
PageCall ==
    /\ ~page.done
    /\ pc[1] = "idle"
    /\ Call(1, [DefaultArgs(FS_TREE_OBJECTID) EXCEPT
                  !.objid = Pair(page.low, ULLONG_MAX),
                  !.key_type = Scalar(PageType),
                  !.number = page.maxi])
    /\ UNCHANGED paging

\* The caller takes the page search returned: an empty page ends the
\* enumeration, any other moves the low object id behind its last header.
PageAdvance ==
    /\ pc[1] = "returned"
    /\ LET recs == result[1].recs
           n    == Len(recs)
       IN page' = [page EXCEPT
                     !.seen = page.seen \o [k \in 1..n |-> recs[k].header],
                     !.pages = Append(page.pages, n),
                     !.low = IF n = 0 THEN page.low ELSE recs[n].header[2] + 1,
                     !.done = (n = 0)]
    /\ pc' = Set(pc, 1, "idle")
    /\ UNCHANGED <<args, locals, exc, mem, result, ghosts, tree>>

InitPage ==
    /\ InitSearch
    /\ tree \in Trees
    /\ \E maxi \in 1..MaxItems : page = Cursor(FIRST_FREE_OBJECTID, maxi)

NextPage ==
    \/ PageCall
    \/ IoctlTree(1) /\ UNCHANGED paging
    \/ DecodeStart(1) /\ UNCHANGED paging
    \/ LoopIter(1) /\ UNCHANGED paging
    \/ Return(1) /\ UNCHANGED paging
    \/ PageAdvance

\* search runs to its end once called, and the caller goes on while it can.
SpecPage == InitPage /\ [][NextPage]_vars /\ WF_vars(NextPage)

\* The headers of the items of t the enumeration is about, in tree order.
Matching(t) ==
    LET Test(it) == it.header[2] >= FIRST_FREE_OBJECTID /\ it.header[4] = PageType
        m == SelectSeq(t, Test)
    IN [k \in 1..Len(m) |-> m[k].header]

\* No two of the matching items have the same object id, and none has the
\* largest object id there is.
DistinctObjids(t) ==
    LET m == Matching(t)
    IN /\ \A i, j \in 1..Len(m) : i < j => m[i][2] < m[j][2]
       /\ \A i \in 1..Len(m) : m[i][2] < ULLONG_MAX

\* What the enumeration has received is right so far: the headers are the
\* first of the matching ones, each once and in order; no page is longer than
\* max_items; only the last page may be empty; a call that returned made one
\* transport call and none raised; and an ended enumeration has them all.
PagesRight ==
    /\ Len(page.seen) <= Len(Matching(tree))
    /\ page.seen = SubSeq(Matching(tree), 1, Len(page.seen))
    /\ \A k \in 1..Len(page.pages) :
         /\ page.pages[k] <= page.maxi
         /\ page.pages[k] = 0 <=> (page.done /\ k = Len(page.pages))
    /\ pc[1] = "returned" => (ioctls[1] = 1 /\ Len(result[1].recs) <= page.maxi)
    /\ pc[1] # "raised"
    /\ page.done => (page.seen = Matching(tree) /\ pc[1] = "idle")

\* C3 as stated: whatever the tree, advancing the low object id to the last
\* object id + 1 ends with every matching item received exactly once.
C3_EveryItemOnce ==
    /\ page.seen = SubSeq(Matching(tree), 1, Len(page.seen))
    /\ page.done => page.seen = Matching(tree)

\* C3, amended: when no two matching items share an object id (and none has
\* the largest one), the enumeration receives every matching item exactly
\* once and in order, in pages of at most max_items, each from one transport
\* call, and it ends, with an empty page.
C3_EveryItemOnceDistinct ==
    DistinctObjids(tree) => ([]PagesRight /\ <>page.done)

\* C3 happens: three matching items among others came in two pages of two
\* and one, and the third page was empty.
C3_Witness ==
    /\ page.done /\ page.pages = <<2, 1, 0>>
    /\ Len(tree) = 6 /\ DistinctObjids(tree)

====
